---- MODULE Spec2Model ----
(***************************************************************************)
(* Access-layer codec of bt_mesh (src/bt_mesh/access.py): Opcode,          *)
(* ModelIdentifier, AccessPayload and AccessMessage.  Every method is a    *)
(* pure operator computed the way the Python code computes it; a call      *)
(* either returns a value or raises, and the outcome records which.  The   *)
(* state machine constructs one object per behaviour and applies the       *)
(* methods to it, keeping every argument and every outcome in the state.   *)
(***************************************************************************)
EXTENDS Integers, Sequences, FiniteSets

VARIABLES
    pc,         \* which object this behaviour works on
    wire,       \* bytes handed to the latest from_bytes call
    opc_args,   \* arguments of the Opcode(...) call
    opc,        \* outcome of Opcode(opcode, company_id)
    opc_len,    \* outcome of len(o)
    opc_bytes,  \* outcome of o.as_bytes()
    opc_dec,    \* outcome of Opcode.from_bytes(wire)
    mid,        \* outcome of ModelIdentifier(model_id, company_id)
    mid_bytes,  \* outcome of id.to_bytes()
    mid_dec,    \* outcome of ModelIdentifier.from_bytes(wire)
    pay_params, \* the parameters argument of AccessPayload(o, parameters)
    pay,        \* outcome of AccessPayload(o, parameters)
    pay_bytes,  \* outcome of p.to_bytes()
    pay_dec,    \* outcome of AccessPayload.from_bytes(wire)
    msg_args,   \* arguments of AccessMessage(...)
    msg,        \* outcome of AccessMessage(...)
    msg_dk,     \* outcome of m.device_key()
    msg_dict,   \* outcome of m.to_dict()
    ext,        \* the dict handed to AccessMessage.from_dict
    msg_dec     \* outcome of AccessMessage.from_dict(ext)

opcVars == <<opc_args, opc, opc_len, opc_bytes, opc_dec>>
midVars == <<mid, mid_bytes, mid_dec>>
payVars == <<pay_params, pay, pay_bytes, pay_dec>>
msgVars == <<msg_args, msg, msg_dk, msg_dict, ext, msg_dec>>
vars == <<pc, wire, opcVars, midVars, payVars, msgVars>>

----------------------------------------------------------------------------
(* Python values.  A slot of a __slots__ class that was never assigned is  *)
(* Unset: reading it raises AttributeError.                                *)

PyInt(v) == [t |-> "int", v |-> v]
PyNone == [t |-> "NoneType", v |-> 0]
PyTuple(v) == [t |-> "tuple", v |-> v]
\* an instance of a class wrapping one number (its .value): Address, TTL, KeyIndex
PyObj(v) == [t |-> "object", v |-> v]
Unset == [t |-> "unset", v |-> 0]

(* Outcome of a call: a returned value, or the class of the exception.     *)
Ok(val) == [exc |-> "None", val |-> val]
Raise(e) == [exc |-> e, val |-> <<>>]
NotCalled == [exc |-> "NotCalled", val |-> <<>>]

Returned(r) == r.exc = "None"
Called(r) == r.exc # "NotCalled"
Raised(r) == Called(r) /\ ~Returned(r)

----------------------------------------------------------------------------
(* Integer bit operations on naturals, and the struct module.              *)

RECURSIVE BitOr(_, _)
BitOr(a, b) ==
    IF a = 0 THEN b
    ELSE IF b = 0 THEN a
    ELSE (IF a % 2 = 1 \/ b % 2 = 1 THEN 1 ELSE 0) + 2 * BitOr(a \div 2, b \div 2)

RECURSIVE BitAnd(_, _)
BitAnd(a, b) ==
    IF a = 0 \/ b = 0 THEN 0
    ELSE (IF a % 2 = 1 /\ b % 2 = 1 THEN 1 ELSE 0) + 2 * BitAnd(a \div 2, b \div 2)

\* struct.pack("<B", v)
PackB(v) ==
    IF v.t # "int" \/ v.v < 0 \/ v.v > 255 THEN Raise("struct.error")
    ELSE Ok(<<v.v>>)

\* struct.pack("<H", v): low byte first
PackH(v) ==
    IF v.t # "int" \/ v.v < 0 \/ v.v > 65535 THEN Raise("struct.error")
    ELSE Ok(<<v.v % 256, v.v \div 256>>)

\* struct.pack("<BH", a, b)
PackBH(a, b) ==
    IF ~Returned(PackB(a)) THEN PackB(a)
    ELSE IF ~Returned(PackH(b)) THEN PackH(b)
    ELSE Ok(PackB(a).val \o PackH(b).val)

\* b[lo:hi] of Python, 0-based and clipped to the length of b
Slice(b, lo, hi) ==
    LET h == IF hi < Len(b) THEN hi ELSE Len(b)
    IN  IF lo >= h THEN <<>> ELSE [i \in 1..(h - lo) |-> b[lo + i]]

\* struct.unpack("<H", b): a 1-tuple
UnpackH(b) ==
    IF Len(b) # 2 THEN Raise("struct.error")
    ELSE Ok(PyTuple(b[1] + 256 * b[2]))

----------------------------------------------------------------------------
(* class Opcode                                                            *)

\* Opcode.__init__(self, opcode, company_id=None); the value is the new object
Opcode_init(opcode, company_id) ==
    IF company_id.t = "NoneType" THEN
        IF opcode < 127 THEN
            Ok([opcode |-> PyInt(opcode), company_id |-> Unset])
        ELSE IF 127 < opcode /\ opcode < 49152 THEN
            Ok([opcode |-> PyInt(opcode), company_id |-> Unset])
        ELSE Raise("ValueError")
    ELSE IF company_id.t # "int" THEN Raise("TypeError")
    ELSE IF company_id.v < 65535 /\ opcode < 64 THEN
        Ok([opcode |-> PyInt(opcode), company_id |-> company_id])
    ELSE Ok([opcode |-> Unset, company_id |-> Unset])

\* Opcode.__len__(self)
Opcode_len(self) ==
    IF self.company_id.t = "unset" THEN Raise("AttributeError")
    ELSE IF self.company_id.t # "NoneType" THEN Ok(3)
    ELSE IF self.opcode.t = "unset" THEN Raise("AttributeError")
    ELSE IF self.opcode.v < 127 THEN Ok(1)
    ELSE Ok(2)

\* Opcode.as_bytes(self)
Opcode_as_bytes(self) ==
    LET opcode_len == Opcode_len(self)
    IN  IF ~Returned(opcode_len) THEN opcode_len
        ELSE IF self.opcode.t = "unset" THEN Raise("AttributeError")
        ELSE IF opcode_len.val = 3 THEN
            PackBH(PyInt(BitOr(self.opcode.v, 192)), self.company_id)
        ELSE IF opcode_len.val = 2 THEN
            PackH(PyInt(BitOr(self.opcode.v, 32768)))
        ELSE IF opcode_len.val = 1 THEN
            PackB(self.opcode)
        ELSE Raise("NotImplementedError")

\* The same decoder with the test for the reserved byte 0x7F left out.
Opcode_from_bytes_NoRFU(b) ==
    IF Len(b) = 0 THEN Raise("IndexError")
    ELSE
        LET top == b[1] \div 64
            opcode_size == IF top < 2 THEN 1 ELSE top
            opcode == BitAnd(b[1], 192)
        IN  IF opcode_size = 3 THEN
                IF ~Returned(UnpackH(Slice(b, 1, 3))) THEN UnpackH(Slice(b, 1, 3))
                ELSE Opcode_init(opcode, UnpackH(Slice(b, 1, 3)).val)
            ELSE IF opcode_size = 2 THEN
                IF Len(b) < 2 THEN Raise("IndexError")
                ELSE Opcode_init(BitOr(opcode * 256, b[2]), PyNone)
            ELSE Opcode_init(opcode, PyNone)

\* Opcode.from_bytes(cls, b)
Opcode_from_bytes(b) ==
    IF Len(b) = 0 THEN Raise("IndexError")
    ELSE
        LET top == b[1] \div 64
        IN  IF top < 2 /\ b[1] = 127 THEN Raise("ValueError")
            ELSE
                LET opcode_size == IF top < 2 THEN 1 ELSE top
                    opcode == BitAnd(b[1], 192)
                IN  IF opcode_size = 3 THEN
                        IF ~Returned(UnpackH(Slice(b, 1, 3)))
                        THEN UnpackH(Slice(b, 1, 3))
                        ELSE Opcode_init(opcode, UnpackH(Slice(b, 1, 3)).val)
                    ELSE IF opcode_size = 2 THEN
                        IF Len(b) < 2 THEN Raise("IndexError")
                        ELSE Opcode_init(BitOr(opcode * 256, b[2]), PyNone)
                    ELSE Opcode_init(opcode, PyNone)

----------------------------------------------------------------------------
(* class ModelIdentifier                                                   *)

\* The truth value Python's `if x:` gives a value.
Truthy(x) ==
    IF x.t = "NoneType" THEN FALSE
    ELSE IF x.t = "int" THEN x.v # 0
    ELSE TRUE

\* struct.Struct("<HH").pack(a, b)
PackHH(a, b) ==
    IF ~Returned(PackH(a)) THEN PackH(a)
    ELSE IF ~Returned(PackH(b)) THEN PackH(b)
    ELSE Ok(PackH(a).val \o PackH(b).val)

\* ModelID.to_bytes(): a U16 with byteorder "little"
ModelID_to_bytes(model_id) == PackH(model_id)

\* ModelIdentifier.__init__(self, model_id, company_id=None)
ModelIdentifier_init(model_id, company_id) ==
    Ok([model_id |-> model_id, company_id |-> company_id])

\* ModelIdentifier.to_bytes(self)
ModelIdentifier_to_bytes(self) ==
    IF Truthy(self.company_id) THEN PackHH(self.company_id, self.model_id)
    ELSE ModelID_to_bytes(self.model_id)

\* ModelIdentifier.from_bytes(cls, b): STRUCT.unpack needs exactly 4 bytes
ModelIdentifier_from_bytes(b) ==
    IF Len(b) # 4 THEN Raise("struct.error")
    ELSE LET company_id == b[1] + 256 * b[2]
             model_id == b[3] + 256 * b[4]
         IN  ModelIdentifier_init(PyInt(model_id), PyInt(company_id))

----------------------------------------------------------------------------
(* class AccessPayload                                                     *)

MAX_SIZE == 380

\* AccessPayload.__init__(self, opcode, parameters)
AccessPayload_init(opcode, parameters) ==
    IF Len(parameters) > MAX_SIZE THEN Raise("OverflowError")
    ELSE Ok([opcode |-> opcode, parameters |-> parameters])

\* AccessPayload.to_bytes(self)
AccessPayload_to_bytes(self) ==
    LET head == Opcode_as_bytes(self.opcode)
    IN  IF ~Returned(head) THEN head
        ELSE Ok(head.val \o self.parameters)

\* AccessPayload.from_bytes(cls, b)
AccessPayload_from_bytes(b) ==
    LET opcode == Opcode_from_bytes(b)
    IN  IF ~Returned(opcode) THEN opcode
        ELSE LET n == Opcode_len(opcode.val)
             IN  IF ~Returned(n) THEN n
                 ELSE AccessPayload_init(opcode.val, Slice(b, n.val, Len(b)))

----------------------------------------------------------------------------
(* bytes.hex() and bytes.fromhex(): a str is a sequence of characters      *)

HexDigits == <<"0", "1", "2", "3", "4", "5", "6", "7",
               "8", "9", "a", "b", "c", "d", "e", "f">>

\* bytes.hex(b): two lower-case digits per byte, high nibble first
Hex(b) ==
    [i \in 1..(2 * Len(b)) |->
        LET byte == b[(i + 1) \div 2]
        IN  HexDigits[(IF i % 2 = 1 THEN byte \div 16 ELSE byte % 16) + 1]]

DigitValue(c) == CHOOSE k \in 0..15 : HexDigits[k + 1] = c

\* bytes.fromhex(s), for s of lower-case characters without white space
FromHex(s) ==
    IF Len(s) % 2 # 0 \/ \E i \in 1..Len(s) : \A k \in 1..16 : HexDigits[k] # s[i]
    THEN Raise("ValueError")
    ELSE Ok([i \in 1..(Len(s) \div 2) |->
                16 * DigitValue(s[2 * i - 1]) + DigitValue(s[2 * i])])

\* ByteSerializable.from_bytes_hex(cls, h), inherited by Opcode
Opcode_from_bytes_hex(h) ==
    IF ~Returned(FromHex(h)) THEN FromHex(h)
    ELSE Opcode_from_bytes(FromHex(h).val)

----------------------------------------------------------------------------
(* class AccessMessage                                                     *)

\* AccessMessage.__init__(self, src, dst, ttl, opcode, payload, appkey_index,
\* netkey_index, big_mic, local_device_key, remote_device_key, force_segment),
\* a the record of its arguments
AccessMessage_init(a) ==
    IF a.local_device_key /\ a.remote_device_key THEN Raise("AssertionError")
    ELSE IF (a.local_device_key \/ a.remote_device_key) /\ a.appkey_index.t # "NoneType"
        THEN Raise("ValueError")
    ELSE Ok([src |-> a.src, dst |-> a.dst, ttl |-> a.ttl, opcode |-> a.opcode,
             payload |-> a.payload, appkey_index |-> a.appkey_index,
             netkey_index |-> a.netkey_index, big_mic |-> a.big_mic,
             local_device_key |-> a.local_device_key,
             remote_device_key |-> a.remote_device_key,
             force_segment |-> a.force_segment])

\* AccessMessage.device_key(self)
AccessMessage_device_key(self) ==
    Ok(self.remote_device_key \/ self.remote_device_key)

\* AccessMessage.to_dict(self)
AccessMessage_to_dict(self) ==
    LET opcode == Opcode_as_bytes(self.opcode)
    IN  IF ~Returned(opcode) THEN opcode
        ELSE Ok([src |-> self.src.v,
                 dst |-> self.dst.v,
                 ttl |-> self.ttl.v,
                 opcode |-> Hex(opcode.val),
                 payload |-> Hex(self.payload),
                 netkey_index |-> self.netkey_index.v,
                 appkey_index |-> IF Truthy(self.appkey_index)
                                  THEN PyInt(self.appkey_index.v) ELSE PyNone,
                 big_mic |-> self.big_mic,
                 local_device_key |-> self.local_device_key,
                 remote_device_key |-> self.remote_device_key,
                 force_seg |-> self.force_segment])

\* `x is int`: x is the type object int itself, which no value of a dict of
\* numbers, strings and booleans is
IsTheTypeInt(x) == x.t = "type"

\* AccessMessage.from_dict(cls, d): the body converts the fields into locals
\* and ends without a return statement, so a call that raises nothing
\* returns None
AccessMessage_from_dict(d) ==
    LET src == PyObj(d.src)
        dst == PyObj(d.dst)
        ttl == PyObj(d.ttl)
        opcode == Opcode_from_bytes_hex(d.opcode)
        payload == FromHex(d.payload)
        netkey_index == PyObj(d.netkey_index)
        appkey_index == IF IsTheTypeInt(d.appkey_index)
                        THEN PyObj(d.appkey_index.v) ELSE PyNone
    IN  IF ~Returned(opcode) THEN opcode
        ELSE IF ~Returned(payload) THEN payload
        ELSE Ok(PyNone)

----------------------------------------------------------------------------
(* Inputs                                                                  *)

MaxWireLen == 3

SampleOpcodes == {0, 1, 16, 63, 64, 126, 127, 128, 513, 16383, 16384, 33281, 49151, 49152}
SampleCompanyIds == {PyNone, PyInt(0), PyInt(89), PyInt(65534), PyInt(65535), PyInt(65536)}
SampleBytes == {0, 1, 89, 126, 127, 128, 130, 192, 208, 255}

RECURSIVE SeqsUpTo(_, _)
SeqsUpTo(S, n) ==
    IF n = 0 THEN {<<>>}
    ELSE LET shorter == SeqsUpTo(S, n - 1)
         IN  shorter \cup {Append(s, x) : s \in {q \in shorter : Len(q) = n - 1}, x \in S}

WireInputs == SeqsUpTo(SampleBytes, MaxWireLen)

SampleModelIds == {PyInt(0), PyInt(4660), PyInt(65535)}
SampleModelCompanyIds == {PyNone, PyInt(0), PyInt(89), PyInt(65535)}
ModelWireInputs == WireInputs \cup {<<89, 0, 52, 18>>, <<0, 0, 52, 18>>, <<1, 2, 3, 4, 5>>}

Fill(n, x) == [i \in 1..n |-> x]
ParamLens == {0, 1, 2, MAX_SIZE - 1, MAX_SIZE, MAX_SIZE + 1}
ParamInputs == {Fill(n, x) : n \in ParamLens, x \in {0, 171}}
PayloadWireInputs ==
    {head \o p : head \in {<<>>, <<1>>, <<127>>, <<130, 1>>, <<208, 89, 0>>},
                 p \in ParamInputs}

MessageArgs(o) ==
    {[src |-> PyObj(1), dst |-> PyObj(dst), ttl |-> PyObj(3), opcode |-> o,
      payload |-> payload, appkey_index |-> appkey_index,
      netkey_index |-> PyObj(0), big_mic |-> big_mic,
      local_device_key |-> local_device_key,
      remote_device_key |-> remote_device_key,
      force_segment |-> force_segment] :
        dst \in {2, 49152}, payload \in {<<>>, <<1, 255>>},
        appkey_index \in {PyNone, PyObj(0), PyObj(5)},
        big_mic \in BOOLEAN, local_device_key \in BOOLEAN,
        remote_device_key \in BOOLEAN, force_segment \in BOOLEAN}

ExternalInputs ==
    {[src |-> 1, dst |-> 49152, ttl |-> 3, opcode |-> opcode, payload |-> payload,
      netkey_index |-> 0, appkey_index |-> appkey_index, big_mic |-> FALSE,
      local_device_key |-> local_device_key, remote_device_key |-> FALSE,
      force_seg |-> FALSE] :
        opcode \in {Hex(<<1>>), Hex(<<130, 1>>), Hex(<<208, 89, 0>>), Hex(<<127>>),
                    <<"0">>, <<>>},
        payload \in {<<>>, Hex(<<1, 255>>), <<"z", "z">>},
        appkey_index \in {PyNone, PyInt(0), PyInt(5)},
        local_device_key \in BOOLEAN}

----------------------------------------------------------------------------
(* The state machine                                                       *)

Init ==
    /\ pc = "start"
    /\ wire = <<>>
    /\ opc_args = <<>>
    /\ opc = NotCalled
    /\ opc_len = NotCalled
    /\ opc_bytes = NotCalled
    /\ opc_dec = NotCalled
    /\ mid = NotCalled
    /\ mid_bytes = NotCalled
    /\ mid_dec = NotCalled
    /\ pay_params = <<>>
    /\ pay = NotCalled
    /\ pay_bytes = NotCalled
    /\ pay_dec = NotCalled
    /\ msg_args = <<>>
    /\ msg = NotCalled
    /\ msg_dk = NotCalled
    /\ msg_dict = NotCalled
    /\ ext = <<>>
    /\ msg_dec = NotCalled

\* o = Opcode(opcode, company_id)
NewOpcode ==
    /\ pc = "start"
    /\ \E opcode \in SampleOpcodes, company_id \in SampleCompanyIds :
        /\ opc_args' = [opcode |-> opcode, company_id |-> company_id]
        /\ opc' = Opcode_init(opcode, company_id)
    /\ pc' = "opcode"
    /\ UNCHANGED <<wire, opc_len, opc_bytes, opc_dec, midVars, payVars, msgVars>>

\* len(o)
OpcodeLen ==
    /\ pc = "opcode"
    /\ Returned(opc)
    /\ ~Called(opc_len)
    /\ opc_len' = Opcode_len(opc.val)
    /\ UNCHANGED <<pc, wire, opc_args, opc, opc_bytes, opc_dec, midVars, payVars, msgVars>>

\* o.as_bytes()
OpcodeAsBytes ==
    /\ pc = "opcode"
    /\ Returned(opc)
    /\ ~Called(opc_bytes)
    /\ opc_bytes' = Opcode_as_bytes(opc.val)
    /\ UNCHANGED <<pc, wire, opc_args, opc, opc_len, opc_dec, midVars, payVars, msgVars>>

\* Opcode.from_bytes(b), b received from the wire or just produced by o.as_bytes()
OpcodeFromBytes ==
    /\ ~Called(opc_dec)
    /\ \/ /\ pc = "start"
          /\ \E b \in WireInputs : wire' = b
          /\ pc' = "decode"
       \/ /\ pc = "opcode"
          /\ Returned(opc_bytes)
          /\ wire' = opc_bytes.val
          /\ pc' = pc
    /\ opc_dec' = Opcode_from_bytes(wire')
    /\ UNCHANGED <<opc_args, opc, opc_len, opc_bytes, midVars, payVars, msgVars>>

\* id = ModelIdentifier(model_id, company_id)
NewModelIdentifier ==
    /\ pc = "start"
    /\ \E model_id \in SampleModelIds, company_id \in SampleModelCompanyIds :
        mid' = ModelIdentifier_init(model_id, company_id)
    /\ pc' = "model"
    /\ UNCHANGED <<wire, opcVars, mid_bytes, mid_dec, payVars, msgVars>>

\* id.to_bytes()
ModelIdentifierToBytes ==
    /\ pc = "model"
    /\ Returned(mid)
    /\ ~Called(mid_bytes)
    /\ mid_bytes' = ModelIdentifier_to_bytes(mid.val)
    /\ UNCHANGED <<pc, wire, opcVars, mid, mid_dec, payVars, msgVars>>

\* ModelIdentifier.from_bytes(b), b a slice of received bytes or id.to_bytes()
ModelIdentifierFromBytes ==
    /\ ~Called(mid_dec)
    /\ \/ /\ pc = "start"
          /\ \E b \in ModelWireInputs : wire' = b
          /\ pc' = "model_decode"
       \/ /\ pc = "model"
          /\ Returned(mid_bytes)
          /\ wire' = mid_bytes.val
          /\ pc' = pc
    /\ mid_dec' = ModelIdentifier_from_bytes(wire')
    /\ UNCHANGED <<opcVars, mid, mid_bytes, payVars, msgVars>>

\* p = AccessPayload(o, parameters), o a constructed Opcode
NewAccessPayload ==
    /\ pc = "opcode"
    /\ Returned(opc)
    /\ ~Called(opc_len) /\ ~Called(opc_bytes) /\ ~Called(opc_dec)
    /\ \E parameters \in ParamInputs :
        /\ pay_params' = parameters
        /\ pay' = AccessPayload_init(opc.val, parameters)
    /\ pc' = "payload"
    /\ UNCHANGED <<wire, opcVars, midVars, pay_bytes, pay_dec, msgVars>>

\* p.to_bytes()
AccessPayloadToBytes ==
    /\ pc = "payload"
    /\ Returned(pay)
    /\ ~Called(pay_bytes)
    /\ pay_bytes' = AccessPayload_to_bytes(pay.val)
    /\ UNCHANGED <<pc, wire, opcVars, midVars, pay_params, pay, pay_dec, msgVars>>

\* AccessPayload.from_bytes(b), b received from the wire or p.to_bytes()
AccessPayloadFromBytes ==
    /\ ~Called(pay_dec)
    /\ \/ /\ pc = "start"
          /\ \E b \in PayloadWireInputs : wire' = b
          /\ pc' = "payload_decode"
       \/ /\ pc = "payload"
          /\ Returned(pay_bytes)
          /\ wire' = pay_bytes.val
          /\ pc' = pc
    /\ pay_dec' = AccessPayload_from_bytes(wire')
    /\ UNCHANGED <<opcVars, midVars, pay_params, pay, pay_bytes, msgVars>>

\* m = AccessMessage(src, dst, ttl, o, payload, appkey_index, netkey_index, ...)
NewAccessMessage ==
    /\ pc = "opcode"
    /\ Returned(opc)
    /\ ~Called(opc_len) /\ ~Called(opc_bytes) /\ ~Called(opc_dec)
    /\ \E a \in MessageArgs(opc.val) :
        /\ msg_args' = a
        /\ msg' = AccessMessage_init(a)
    /\ pc' = "message"
    /\ UNCHANGED <<wire, opcVars, midVars, payVars, msg_dk, msg_dict, ext, msg_dec>>

\* m.device_key()
AccessMessageDeviceKey ==
    /\ pc = "message"
    /\ Returned(msg)
    /\ ~Called(msg_dk)
    /\ msg_dk' = AccessMessage_device_key(msg.val)
    /\ UNCHANGED <<pc, wire, opcVars, midVars, payVars, msg_args, msg, msg_dict, ext, msg_dec>>

\* m.to_dict()
AccessMessageToDict ==
    /\ pc = "message"
    /\ Returned(msg)
    /\ ~Called(msg_dict)
    /\ msg_dict' = AccessMessage_to_dict(msg.val)
    /\ UNCHANGED <<pc, wire, opcVars, midVars, payVars, msg_args, msg, msg_dk, ext, msg_dec>>

\* AccessMessage.from_dict(d), d a stored record or m.to_dict()
AccessMessageFromDict ==
    /\ ~Called(msg_dec)
    /\ \/ /\ pc = "start"
          /\ \E d \in ExternalInputs : ext' = d
          /\ pc' = "message_decode"
       \/ /\ pc = "message"
          /\ Returned(msg_dict)
          /\ ext' = msg_dict.val
          /\ pc' = pc
    /\ msg_dec' = AccessMessage_from_dict(ext')
    /\ UNCHANGED <<wire, opcVars, midVars, payVars, msg_args, msg, msg_dk, msg_dict>>

Next ==
    \/ NewOpcode
    \/ OpcodeLen
    \/ OpcodeAsBytes
    \/ OpcodeFromBytes
    \/ NewModelIdentifier
    \/ ModelIdentifierToBytes
    \/ ModelIdentifierFromBytes
    \/ NewAccessPayload
    \/ AccessPayloadToBytes
    \/ AccessPayloadFromBytes
    \/ NewAccessMessage
    \/ AccessMessageDeviceKey
    \/ AccessMessageToDict
    \/ AccessMessageFromDict

Spec == Init /\ [][Next]_vars

----------------------------------------------------------------------------
(* Properties of Opcode                                                    *)

\* The length class the data model gives the arguments of Opcode(...):
\* 1 for 0x00-0x7E, 2 for a 14-bit value above 0x7F, both without company
\* id; 3 for opcode < 64 with a 16-bit company id; 0 when they are invalid.
ClaimClass(a) ==
    IF a.company_id.t = "NoneType" THEN
        IF a.opcode >= 0 /\ a.opcode <= 126 THEN 1
        ELSE IF a.opcode >= 128 /\ a.opcode <= 16383 THEN 2
        ELSE 0
    ELSE IF a.company_id.v >= 0 /\ a.company_id.v <= 65535 /\ a.opcode >= 0 /\ a.opcode < 64
        THEN 3
    ELSE 0

\* o has the opcode value and the company id of the arguments a
\* (a slot never assigned counts as an absent company id)
SameOpcode(o, a) ==
    /\ o.opcode = PyInt(a.opcode)
    /\ IF a.company_id.t = "int" THEN o.company_id = a.company_id
       ELSE o.company_id.t \in {"NoneType", "unset"}

\* The length class the top two bits of a first byte announce.
TopBitsClass(byte) == IF byte < 128 THEN 1 ELSE IF byte < 192 THEN 2 ELSE 3

\* C1: for every valid Opcode o, o.as_bytes() succeeds and
\* Opcode.from_bytes(o.as_bytes()) succeeds and yields the opcode value and the
\* company id of o (absent iff o's is absent).
C1_OpcodeRoundTrip ==
    (pc = "opcode" /\ Returned(opc) /\ ClaimClass(opc_args) # 0) =>
        /\ ~Raised(opc_bytes)
        /\ Called(opc_dec) => (Returned(opc_dec) /\ SameOpcode(opc_dec.val, opc_args))

\* C2: on every constructed Opcode len(o) and o.as_bytes() never fail,
\* len(o.as_bytes()) = len(o), and that length is 1, 2 or 3 as the size class
\* of its opcode and company id says.
C2_SizeClasses ==
    (pc = "opcode" /\ Returned(opc)) =>
        /\ ~Raised(opc_len)
        /\ ~Raised(opc_bytes)
        /\ (Returned(opc_len) /\ ClaimClass(opc_args) # 0) =>
                opc_len.val = ClaimClass(opc_args)
        /\ (Returned(opc_bytes) /\ ClaimClass(opc_args) # 0) =>
                Len(opc_bytes.val) = ClaimClass(opc_args)
        /\ (Returned(opc_len) /\ Returned(opc_bytes)) =>
                Len(opc_bytes.val) = opc_len.val

\* C3: for every valid Opcode the top two bits of the first byte of
\* o.as_bytes() give its length class and agree with len(o); a 2-octet opcode
\* is emitted as (opcode | 0x8000) big-endian; Opcode(0x10, 0x0059) encodes
\* to D0 59 00.
C3_SelfDescribingFirstByte ==
    (pc = "opcode" /\ Returned(opc) /\ ClaimClass(opc_args) # 0 /\ Called(opc_bytes)) =>
        /\ Returned(opc_bytes)
        /\ Len(opc_bytes.val) = ClaimClass(opc_args)
        /\ TopBitsClass(opc_bytes.val[1]) = ClaimClass(opc_args)
        /\ Returned(opc_len) => opc_len.val = TopBitsClass(opc_bytes.val[1])
        /\ ClaimClass(opc_args) = 2 =>
                opc_bytes.val = << BitOr(opc_args.opcode, 32768) \div 256,
                                   BitOr(opc_args.opcode, 32768) % 256 >>
        /\ opc_args = [opcode |-> 16, company_id |-> PyInt(89)] =>
                opc_bytes.val = <<208, 89, 0>>

\* The arguments of Opcode(...) are outside the valid ranges: no company id
\* and opcode 0x7F or beyond the 2-octet range, or a company id together with
\* opcode >= 64 or with a value that is no 16-bit number.
InvalidOpcodeArgs(a) ==
    IF a.company_id.t = "NoneType" THEN a.opcode = 127 \/ a.opcode >= 49152
    ELSE a.opcode >= 64 \/ a.company_id.v < 0 \/ a.company_id.v > 65535

\* C4: Opcode(...) with arguments outside the valid ranges fails with the
\* invalid-opcode error (ValueError), so every Opcode object has both fields
\* set, with a company id present iff it is of the 3-octet form.
C4_ConstructionValidation ==
    (pc = "opcode" /\ Called(opc)) =>
        /\ InvalidOpcodeArgs(opc_args) => opc.exc = "ValueError"
        /\ Returned(opc) =>
            /\ opc.val.opcode.t = "int"
            /\ opc.val.company_id.t \in {"int", "NoneType"}
            /\ opc.val.company_id.t = "int" <=> opc_args.company_id.t = "int"

\* The input has fewer bytes than the length class of its first byte needs.
Truncated(b) ==
    \/ Len(b) = 0
    \/ Len(b) < TopBitsClass(b[1])

\* C5: Opcode.from_bytes fails with the format error (ValueError) on every
\* input whose first byte is 0x7F, and with a truncation error (IndexError
\* from indexing, struct.error from unpacking) on every input shorter than
\* the length class of its first byte; it returns no Opcode in those cases.
C5_DecodeFormatErrors ==
    Called(opc_dec) =>
        /\ (Len(wire) > 0 /\ wire[1] = 127) => opc_dec.exc = "ValueError"
        /\ Truncated(wire) => opc_dec.exc \in {"IndexError", "struct.error"}

\* A 3-octet-class input cut after two bytes was decoded and refused.
C5_Witness ==
    /\ pc = "decode"
    /\ wire = <<208, 89>>
    /\ opc_dec.exc = "struct.error"

\* The reserved byte followed by more bytes was decoded and refused.
C5_WitnessRFU ==
    /\ pc = "decode"
    /\ wire = <<127, 0>>
    /\ opc_dec.exc = "ValueError"

----------------------------------------------------------------------------
(* Properties of AccessPayload                                             *)

\* C6: AccessPayload(opcode, parameters) fails with OverflowError iff
\* len(parameters) > 380; from_bytes fails when more than 380 bytes follow
\* the opcode; and for every valid opcode and 0..380 parameter bytes p.to_bytes()
\* succeeds and AccessPayload.from_bytes(p.to_bytes()) yields the same opcode
\* and the same parameters.
C6_PayloadBoundAndRoundTrip ==
    /\ (pc = "payload" /\ Called(pay)) =>
            /\ pay.exc = "OverflowError" <=> Len(pay_params) > MAX_SIZE
            /\ Returned(pay) => Len(pay.val.parameters) <= MAX_SIZE
    /\ (pc = "payload_decode" /\ Called(pay_dec) /\ ~Truncated(wire)
            /\ Len(wire) - TopBitsClass(wire[1]) > MAX_SIZE) => Raised(pay_dec)
    /\ (pc = "payload" /\ Returned(pay) /\ ClaimClass(opc_args) # 0) =>
            /\ ~Raised(pay_bytes)
            /\ Called(pay_dec) =>
                    /\ Returned(pay_dec)
                    /\ SameOpcode(pay_dec.val.opcode, opc_args)
                    /\ pay_dec.val.parameters = pay_params

----------------------------------------------------------------------------
(* Properties of AccessMessage                                             *)

\* C7: AccessMessage(...) fails with the validation error (ValueError, the
\* class the constructors of this module raise for invalid arguments) when both
\* device-key flags are true and when a device-key flag comes with an
\* appkey_index, 0 included; so every constructed message has at most one
\* device-key flag and, with one, no appkey_index.
C7_SecurityContextExclusion ==
    (pc = "message" /\ Called(msg)) =>
        /\ (msg_args.local_device_key /\ msg_args.remote_device_key) =>
                msg.exc = "ValueError"
        /\ ((msg_args.local_device_key \/ msg_args.remote_device_key)
                /\ msg_args.appkey_index.t # "NoneType") => msg.exc = "ValueError"
        /\ Returned(msg) =>
                /\ ~(msg.val.local_device_key /\ msg.val.remote_device_key)
                /\ (msg.val.local_device_key \/ msg.val.remote_device_key) =>
                        msg.val.appkey_index.t = "NoneType"

\* x is an AccessMessage with the eleven fields of m
SameMessage(x, m, a) ==
    /\ DOMAIN x = DOMAIN m
    /\ x.src = m.src /\ x.dst = m.dst /\ x.ttl = m.ttl
    /\ SameOpcode(x.opcode, a)
    /\ x.payload = m.payload
    /\ x.appkey_index = m.appkey_index
    /\ x.netkey_index = m.netkey_index
    /\ x.big_mic = m.big_mic
    /\ x.local_device_key = m.local_device_key
    /\ x.remote_device_key = m.remote_device_key
    /\ x.force_segment = m.force_segment

\* C8: for every validly constructed AccessMessage m, m.to_dict() succeeds and
\* AccessMessage.from_dict(m.to_dict()) returns an AccessMessage equal to m in
\* all eleven fields.
C8_ExternalRoundTrip ==
    (pc = "message" /\ Returned(msg) /\ ClaimClass(opc_args) # 0) =>
        /\ ~Raised(msg_dict)
        /\ Called(msg_dec) =>
                (Returned(msg_dec) /\ SameMessage(msg_dec.val, msg.val, opc_args))

\* C9: m.device_key() is true iff m.local_device_key or m.remote_device_key.
C9_DeviceKeyAccessor ==
    (pc = "message" /\ Called(msg_dk)) =>
        /\ Returned(msg_dk)
        /\ msg_dk.val <=> (msg.val.local_device_key \/ msg.val.remote_device_key)

----------------------------------------------------------------------------
(* Properties of ModelIdentifier                                           *)

\* a 16-bit number, low byte first
LittleEndian16(n) == <<n % 256, n \div 256>>

\* C10: to_bytes emits company_id then model_id, both little-endian 16-bit,
\* whenever a company id is present (0x0000 included) and model_id alone when
\* it is absent; from_bytes of 2 bytes yields the SIG model with no company
\* id, of 4 bytes the vendor model, of any other length fails; and
\* from_bytes(id.to_bytes()) equals id.
C10_ModelIdentifierCodec ==
    /\ (pc = "model" /\ Called(mid_bytes)) =>
            /\ Returned(mid_bytes)
            /\ mid_bytes.val =
                    IF mid.val.company_id.t = "int"
                    THEN LittleEndian16(mid.val.company_id.v) \o LittleEndian16(mid.val.model_id.v)
                    ELSE LittleEndian16(mid.val.model_id.v)
    /\ (pc = "model" /\ Called(mid_dec)) =>
            (Returned(mid_dec) /\ mid_dec.val = mid.val)
    /\ (pc = "model_decode" /\ Called(mid_dec)) =>
            IF Len(wire) = 2 THEN
                /\ Returned(mid_dec)
                /\ mid_dec.val.model_id = PyInt(wire[1] + 256 * wire[2])
                /\ mid_dec.val.company_id.t = "NoneType"
            ELSE IF Len(wire) = 4 THEN
                /\ Returned(mid_dec)
                /\ mid_dec.val.company_id = PyInt(wire[1] + 256 * wire[2])
                /\ mid_dec.val.model_id = PyInt(wire[3] + 256 * wire[4])
            ELSE Raised(mid_dec)

====
